---- MODULE Spec2Model ----
(***************************************************************************)
(* Model of backuptool.py: a content-addressed, deduplicating backup tool  *)
(* over an SQLite store with three tables (snapshots, files, file_data).   *)
(*                                                                         *)
(* db is the committed content of the store: what any other connection     *)
(* reads.  tx is the view of the engine's own connection: it differs from  *)
(* db exactly while a transaction opened by an INSERT or DELETE is not yet *)
(* committed.  The engine runs one operation at a time (pc); the file      *)
(* system under the snapshotted directory changes at any time, also        *)
(* between two steps of snapshot.                                          *)
(***************************************************************************)
EXTENDS Integers, Sequences, FiniteSets, TLC

\* ------------------------------------------------------------------ bounds
MaxSnapshots == 2      \* cap on the AUTOINCREMENT counter
MaxEnvSteps == 1       \* cap on the writes/deletes done to the source tree
MaxCorruptions == 2    \* cap on the out-of-band changes of stored rows

Bytes == {0, 1}
Paths == {"a.txt", "d/b.bin"}

\* the file contents tried: two byte strings of different sizes
Contents == {<<1>>, <<0, 1>>}

\* a tree of regular files: relative path -> bytes, for the paths that exist
Trees == UNION {[S -> Contents] : S \in SUBSET Paths}
EmptyTree == [p \in {} |-> <<>>]
WriteTree(t, p, c) == [q \in DOMAIN t \cup {p} |-> IF q = p THEN c ELSE t[q]]
RemoveTree(t, p) == [q \in DOMAIN t \ {p} |-> t[q]]

\* entries of a directory that are not regular files, and the bytes of the
\* regular file outside "T" that the symbolic link points to
Kinds == {"symlink", "device", "directory"}
NoSpecial == [p \in {} |-> "device"]
SomeSpecial == [p \in {"link", "dev", "sub"} |->
                  IF p = "link" THEN "symlink"
                  ELSE IF p = "dev" THEN "device" ELSE "directory"]
LinkedContent == <<1>>

\* the destination directories restore is tried on: an empty one and one
\* that already holds a file
DestInits == {EmptyTree, [p \in {"a.txt"} |-> <<0, 1>>]}

\* the directories a caller may name: "T" is an existing directory whose
\* regular files are fs, "missing" does not exist, "afile" is a regular file
Roots == {"T", "missing", "afile"}

VARIABLES
    fs,               \* the regular files under directory "T"
    special,          \* the other entries under "T": path -> kind
    db,               \* the committed store
    tx,               \* the store as the engine's connection sees it
    pc,               \* the statement the engine is about to execute
    target_directory, \* snapshot(): its argument
    snapshot_id,      \* snapshot(): cursor.lastrowid
    walk,             \* snapshot(): the paths rglob has still to yield
    file,             \* snapshot(): the loop variable
    file_size,        \* snapshot(): os.path.getsize(file)
    file_hash,        \* snapshot(): hasher.hexdigest()
    total_size,       \* snapshot(): bytes walked so far
    snapshot_number,  \* prune(): its argument
    result,           \* outcome of the last operation, once it completed
    returned,         \* history: the ids snapshot() has returned, in order
    captured,         \* history: id :> tree of the latest snapshot, kept
                      \* only if no file changed while that snapshot ran
    envSteps,         \* history: number of changes made to the tree
    corruptions       \* history: number of out-of-band changes of the store

vars == <<fs, special, db, tx, pc, target_directory, snapshot_id, walk, file,
          file_size, file_hash, total_size, snapshot_number, result,
          returned, captured, envSteps, corruptions, special>>

locals == <<target_directory, snapshot_id, walk, file, file_size, file_hash,
            total_size, snapshot_number>>

\* ------------------------------------------------------------- the hasher
\* hasher.update(chunk): folds the bytes of one chunk into the running
\* digest.  The fold stands for SHA-256: positional, so that it is
\* collision-free on Contents and independent of the chunk boundaries.
RECURSIVE HashUpdate(_, _)
HashUpdate(h, chunk) ==
    IF chunk = <<>> THEN h
    ELSE HashUpdate(h * (Cardinality(Bytes) + 1) + Head(chunk) + 1, Tail(chunk))

\* hashlib.sha256(content).hexdigest()
Sha256(content) == HashUpdate(0, content)

\* ------------------------------------------------------------ the tables
EmptyDb == [snapshots |-> {}, files |-> <<>>, file_data |-> <<>>, seq |-> 0]

\* INTEGER PRIMARY KEY AUTOINCREMENT: one more than the largest id the
\* table has ever held (sqlite_sequence), not than the largest it holds now
NextIdMaxRowid(d) ==
    IF d.snapshots = {} THEN 1
    ELSE (CHOOSE m \in d.snapshots : \A k \in d.snapshots : k <= m) + 1

NextId(d) == d.seq + 1

\* INSERT INTO snapshots (timestamp) VALUES (?)
InsertSnapshot(d) ==
    [d EXCEPT !.snapshots = @ \cup {NextId(d)}, !.seq = NextId(d)]

\* INSERT INTO files (snapshot_id, path, hash, size) VALUES (?, ?, ?, ?)
InsertFile(d, sid, path, h, size) ==
    [d EXCEPT !.files =
        Append(@, [snapshot_id |-> sid, path |-> path, hash |-> h, size |-> size])]

\* SELECT hash FROM file_data WHERE hash = ?   (fetchone() is not None)
HashStored(d, h) == \E i \in 1..Len(d.file_data) : d.file_data[i].hash = h

\* snapshot's blob write: a row is inserted only when the SELECT found none
PutBlobAlways(d, h, content, size) ==
    [d EXCEPT !.file_data = Append(@, [hash |-> h, content |-> content, size |-> size])]

PutBlobReplace(d, h, content, size) ==
    LET Other(r) == r.hash # h
    IN  [d EXCEPT !.file_data =
            Append(SelectSeq(@, Other), [hash |-> h, content |-> content, size |-> size])]

PutBlobInverted(d, h, content, size) ==
    IF ~HashStored(d, h) THEN d
    ELSE [d EXCEPT !.file_data =
            Append(@, [hash |-> h, content |-> content, size |-> size])]

PutBlob(d, h, content, size) ==
    IF HashStored(d, h) THEN d
    ELSE [d EXCEPT !.file_data =
            Append(@, [hash |-> h, content |-> content, size |-> size])]

\* ON DELETE CASCADE of files.snapshot_id for the deleted snapshot ids
Cascade(files, deleted) ==
    LET Keep(r) == r.snapshot_id \notin deleted IN SelectSeq(files, Keep)

\* DELETE FROM snapshots WHERE id = ?   (foreign_keys = ON)
DeleteSnapshotNoWhere(d, id) ==
    [d EXCEPT !.snapshots = {}, !.files = Cascade(@, d.snapshots)]

DeleteSnapshotCollect(d, id) ==
    LET kept == Cascade(d.files, d.snapshots \cap {id})
        Used(b) == \E i \in 1..Len(kept) : kept[i].hash = b.hash
    IN  [d EXCEPT !.snapshots = @ \ {id}, !.files = kept,
                  !.file_data = SelectSeq(@, Used)]

DeleteSnapshot(d, id) ==
    [d EXCEPT !.snapshots = @ \ {id},
              !.files = Cascade(@, d.snapshots \cap {id})]

\* DELETE FROM files WHERE snapshot_id = ?
DeleteFilesNoWhere(d, id) == [d EXCEPT !.files = <<>>]

DeleteFiles(d, id) ==
    LET Keep(r) == r.snapshot_id # id
    IN  [d EXCEPT !.files = SelectSeq(@, Keep)]

\* what a statement executed inside the open transaction leaves in the
\* committed store: nothing (sqlite3's default deferred transactions)
AfterStatementAutocommit(committed, working) == working

AfterStatement(committed, working) == committed

\* what a SELECT leaves in the store: the tables as they were
AfterSelectPurge(d) ==
    LET Used(b) == \E i \in 1..Len(d.files) : d.files[i].hash = b.hash
    IN  [d EXCEPT !.file_data = SelectSeq(@, Used)]

AfterSelect(d) == d

\* ------------------------------------------------------------ the engine
SnapPcs == {"next", "getsize", "hash", "insert_file", "insert_blob", "commit"}
PrunePcs == {"delete_files", "prune_commit"}

Outcome(op, arg, kind, v) == [op |-> op, arg |-> arg, kind |-> kind, v |-> v]
Running == Outcome("none", 0, "running", 0)

Init ==
    /\ fs \in Trees
    /\ special = NoSpecial
    /\ db = EmptyDb
    /\ tx = EmptyDb
    /\ pc = "idle"
    /\ target_directory = "T"
    /\ snapshot_id = 0
    /\ walk = <<>>
    /\ file = "a.txt"
    /\ file_size = 0
    /\ file_hash = 0
    /\ total_size = 0
    /\ snapshot_number = 0
    /\ result = Running
    /\ returned = <<>>
    /\ captured = [i \in {} |-> EmptyTree]
    /\ envSteps = 0
    /\ corruptions = 0

\* the orders in which a directory scan may yield the paths in S
Orders(S) ==
    {s \in [1..Cardinality(S) -> S] : \A i, j \in 1..Cardinality(S) : s[i] = s[j] => i = j}

\* the order in which the directory scan yields the paths in S
DirOrder(S) == CHOOSE s \in Orders(S) : \A i, j \in 1..Cardinality(S) : i < j => s[i] = "a.txt"

\* target_directory.rglob("*"): a path that is not an existing directory
\* yields nothing
Rglob(root, tree) ==
    IF root = "T"
    THEN DirOrder(DOMAIN tree) \o (CHOOSE s \in Orders(DOMAIN special) : TRUE)
    ELSE <<>>

\* Path.is_file(): a regular file, or a symbolic link that points to one
IsFile(p) ==
    \/ p \in DOMAIN fs
    \/ IF p \in DOMAIN special THEN special[p] = "symlink" ELSE FALSE

\* open(p, 'rb').read(): the bytes of the file, through a symbolic link
ReadBytes(p) == IF p \in DOMAIN fs THEN fs[p] ELSE LinkedContent

\* the function leaves: its locals are gone
Return ==
    /\ pc' = "idle"
    /\ target_directory' = "T"
    /\ snapshot_id' = 0
    /\ walk' = <<>>
    /\ file' = "a.txt"
    /\ file_size' = 0
    /\ file_hash' = 0
    /\ total_size' = 0
    /\ snapshot_number' = 0

\* an exception leaves the "with conn" block: the transaction is rolled back;
\* the outcome notes how many files rows the attempt had written
RaiseCommitted(kind) ==
    /\ tx' = tx
    /\ db' = tx
    /\ result' = Outcome("snapshot", target_directory, kind,
                         Len(tx.files) - Len(db.files))
    /\ Return
    /\ captured' = [i \in {} |-> fs]
    /\ UNCHANGED <<fs, returned, envSteps, corruptions, special>>

Raise(kind) ==
    /\ tx' = db
    /\ db' = db
    /\ result' = Outcome("snapshot", target_directory, kind,
                         Len(tx.files) - Len(db.files))
    /\ Return
    /\ captured' = [i \in {} |-> fs]
    /\ UNCHANGED <<fs, returned, envSteps, corruptions, special>>

\* snapshot(), lines 64-71: INSERT INTO snapshots, lastrowid, start the walk
SnapshotInsert(root) ==
    /\ pc = "idle"
    /\ tx.seq < MaxSnapshots
    /\ tx' = InsertSnapshot(tx)
    /\ db' = AfterStatement(db, tx')
    /\ snapshot_id' = NextId(tx)
    /\ target_directory' = root
    /\ total_size' = 0
    /\ walk' = Rglob(root, fs)
    /\ pc' = "next"
    /\ captured' = IF root = "T" THEN [i \in {NextId(tx)} |-> fs]
                   ELSE [i \in {} |-> fs]
    /\ result' = Running
    /\ UNCHANGED <<fs, file, file_size, file_hash, snapshot_number,
                   returned, envSteps, corruptions, special>>

\* lines 71-72: the next path of the walk, skipped unless file.is_file()
SnapshotNext ==
    /\ pc = "next"
    /\ IF walk = <<>>
       THEN /\ pc' = "commit"
            /\ UNCHANGED <<walk, file>>
       ELSE /\ file' = Head(walk)
            /\ walk' = Tail(walk)
            /\ pc' = IF IsFile(Head(walk)) THEN "getsize" ELSE "next"
    /\ UNCHANGED <<fs, db, tx, target_directory, snapshot_id, file_size,
                   file_hash, total_size, snapshot_number, result, returned, captured, envSteps, corruptions, special>>

\* _hash_file, line 57: os.path.getsize(file_path)
SnapshotGetSize ==
    /\ pc = "getsize"
    /\ IF ~IsFile(file)
       THEN Raise("IOError")
       ELSE /\ file_size' = Len(ReadBytes(file))
            /\ pc' = "hash"
            /\ UNCHANGED <<fs, db, tx, target_directory, snapshot_id, walk,
                           file, file_hash, total_size, snapshot_number,
                           result, returned, captured, envSteps, corruptions, special>>

\* _hash_file, lines 58-61, and line 74: read and hash the file
SnapshotHash ==
    /\ pc = "hash"
    /\ IF ~IsFile(file)
       THEN Raise("IOError")
       ELSE /\ file_hash' = Sha256(ReadBytes(file))
            /\ total_size' = total_size + file_size
            /\ pc' = "insert_file"
            /\ UNCHANGED <<fs, db, tx, target_directory, snapshot_id, walk,
                           file, file_size, snapshot_number,         result, returned, captured, envSteps, corruptions, special>>

\* lines 75-76: INSERT INTO files
SnapshotInsertFile ==
    /\ pc = "insert_file"
    /\ tx' = InsertFile(tx, snapshot_id, file, file_hash, file_size)
    /\ db' = AfterStatement(db, tx')
    /\ pc' = "insert_blob"
    /\ UNCHANGED <<fs, target_directory, snapshot_id, walk, file, file_size,
                   file_hash, total_size, snapshot_number, result, returned, captured, envSteps, corruptions, special>>

\* lines 78-82: SELECT the hash; if it is not stored, read the file again
\* and INSERT INTO file_data
SnapshotInsertBlob ==
    /\ pc = "insert_blob"
    /\ IF ~HashStored(tx, file_hash) /\ ~IsFile(file)
       THEN Raise("IOError")
       ELSE /\ tx' = PutBlob(tx, file_hash, ReadBytes(file), file_size)
            /\ db' = AfterStatement(db, tx')
            /\ pc' = "next"
            /\ UNCHANGED <<fs, target_directory, snapshot_id, walk, file,
                           file_size, file_hash, total_size, snapshot_number,
                           result, returned, captured, envSteps, corruptions, special>>

\* lines 84-86: conn.commit(), return snapshot_id
SnapshotCommit ==
    /\ pc = "commit"
    /\ db' = tx
    /\ tx' = tx
    /\ result' = [op |-> "snapshot", arg |-> target_directory, kind |-> "id",
                   v |-> snapshot_id, total |-> total_size]
    /\ returned' = Append(returned, snapshot_id)
    /\ Return
    /\ UNCHANGED <<fs, captured, envSteps, corruptions, special>>

\* prune(), line 119: DELETE FROM snapshots WHERE id = ?
PruneDeleteSnapshot(id) ==
    /\ pc = "idle"
    /\ snapshot_number' = id
    /\ tx' = DeleteSnapshot(tx, id)
    /\ db' = AfterStatement(db, tx')
    /\ pc' = "delete_files"
    /\ result' = Running
    /\ UNCHANGED <<fs, target_directory, snapshot_id, walk, file, file_size,
                   file_hash, total_size, returned, captured, envSteps, corruptions, special>>

\* line 120: DELETE FROM files WHERE snapshot_id = ?
PruneDeleteFiles ==
    /\ pc = "delete_files"
    /\ tx' = DeleteFiles(tx, snapshot_number)
    /\ db' = AfterStatement(db, tx')
    /\ pc' = "prune_commit"
    /\ UNCHANGED <<fs, locals, result, returned, captured,
                   envSteps, corruptions, special>>

\* lines 121-122: conn.commit()
PruneCommit ==
    /\ pc = "prune_commit"
    /\ db' = tx
    /\ tx' = tx
    /\ result' = Outcome("prune", snapshot_number, "ok", 0)
    /\ Return
    /\ UNCHANGED <<fs, returned, captured, envSteps, corruptions, special>>

\* SELECT path, hash FROM files WHERE snapshot_id = ?
FilesOf(d, id) == LET Mine(r) == r.snapshot_id = id IN SelectSeq(d.files, Mine)

\* SELECT content FROM file_data WHERE hash = ?   (the rows found)
BlobsOf(d, h) == LET Mine(r) == r.hash = h IN SelectSeq(d.file_data, Mine)

\* restore(), lines 105-112: every entry whose content is found is written
\* to output_directory / rel_path; an entry without content is skipped
RECURSIVE RestoreFiles(_, _, _)
RestoreFiles(d, entries, out) ==
    IF entries = <<>> THEN out
    ELSE LET e == Head(entries)
             content == BlobsOf(d, e.hash)
         IN  RestoreFiles(d, Tail(entries),
                 IF content # <<>> THEN WriteTree(out, e.path, content[1].content)
                 ELSE out)

\* the paths restore reports as not restored: the loop of lines 105-112
\* prints nothing, and line 113 prints the same message in every case
RestoreDiagnostics(d, entries) == {}

\* restore(snapshot_number, output_directory), the directory holding before
Restore(id, before) ==
    /\ pc = "idle"
    /\ result' = [op |-> "restore", arg |-> id, kind |-> "ok", v |-> 0,
                   before |-> before,
                   dest |-> RestoreFiles(db, FilesOf(db, id), before),
                   diagnostics |-> RestoreDiagnostics(db, FilesOf(db, id))]
    /\ db' = AfterSelect(db)
    /\ tx' = AfterSelect(tx)
    /\ UNCHANGED <<fs, pc, locals, returned, captured, envSteps, corruptions, special>>

\* check(), lines 129-133: the first row whose content does not hash to its
\* key ends the scan
RECURSIVE CheckScanLast(_)
CheckScanLast(rows) ==
    IF rows = <<>> THEN Outcome("check", 0, "ok", 0)
    ELSE LET r == rows[Len(rows)] IN
         IF Sha256(r.content) # r.hash
         THEN Outcome("check", 0, "corrupt", r.hash)
         ELSE CheckScanLast(SubSeq(rows, 1, Len(rows) - 1))

RECURSIVE CheckScan(_)
CheckScan(rows) ==
    IF rows = <<>> THEN Outcome("check", 0, "ok", 0)
    ELSE IF Sha256(Head(rows).content) # Head(rows).hash
         THEN Outcome("check", 0, "corrupt", Head(rows).hash)
         ELSE CheckScan(Tail(rows))

\* check(): files = cursor.fetchall() (line 128), then the scan
Check ==
    /\ pc = "idle"
    /\ result' = [op |-> "check", arg |-> 0,
                   kind |-> CheckScan(db.file_data).kind,
                   v |-> CheckScan(db.file_data).v,
                   files |-> db.file_data]
    /\ db' = AfterSelect(db)
    /\ tx' = AfterSelect(tx)
    /\ UNCHANGED <<fs, pc, locals, returned, captured,
                   envSteps, corruptions, special>>

SumSizeCount(rows) == Len(rows)

RECURSIVE SumSize(_)
SumSize(rows) == IF rows = <<>> THEN 0 ELSE Head(rows).size + SumSize(Tail(rows))

\* GROUP BY s.id: the ids in ascending order
RECURSIVE Ascending(_)
Ascending(ids) ==
    IF ids = {} THEN <<>>
    ELSE LET m == CHOOSE x \in ids : \A y \in ids : x <= y
         IN  <<m>> \o Ascending(ids \ {m})

\* list_snapshots(), line 91: SELECT s.id, s.timestamp, COALESCE(SUM(f.size), 0)
\* FROM snapshots s LEFT JOIN files f ON s.id = f.snapshot_id GROUP BY s.id
ListSnapshots(d) ==
    LET ids == Ascending(d.snapshots)
    IN  [i \in 1..Len(ids) |-> [id |-> ids[i], size |-> SumSize(FilesOf(d, ids[i]))]]

\* list_snapshots(), lines 88-95: the rows fetched and printed
List ==
    /\ pc = "idle"
    /\ result' = [op |-> "list", arg |-> 0, kind |-> "ok", v |-> 0,
                   rows |-> ListSnapshots(db)]
    /\ db' = AfterSelect(db)
    /\ tx' = AfterSelect(tx)
    /\ UNCHANGED <<fs, pc, locals, returned, captured,
                   envSteps, corruptions, special>>

\* -------------------------------------------------------- the environment
\* a change of the tree while a snapshot runs: that snapshot did not run on
\* one tree
Disturb ==
    captured' = IF pc \in SnapPcs
                THEN [i \in {} |-> fs]
                ELSE captured

\* another process writes a file under "T"
WriteFile(p, c) ==
    /\ envSteps < MaxEnvSteps
    /\ IF p \in DOMAIN fs THEN fs[p] # c ELSE TRUE
    /\ fs' = WriteTree(fs, p, c)
    /\ envSteps' = envSteps + 1
    /\ Disturb
    /\ UNCHANGED <<db, tx, pc, locals, result, returned, corruptions, special>>

\* another process deletes a file under "T"
DeleteFile(p) ==
    /\ envSteps < MaxEnvSteps
    /\ p \in DOMAIN fs
    /\ fs' = RemoveTree(fs, p)
    /\ envSteps' = envSteps + 1
    /\ Disturb
    /\ UNCHANGED <<db, tx, pc, locals, result, returned, corruptions, special>>

\* the content column of a stored row is overwritten behind the engine's
\* back (bit rot, a manual UPDATE)
Corrupt(i, c) ==
    /\ pc = "idle"
    /\ corruptions < MaxCorruptions
    /\ i \in 1..Len(db.file_data)
    /\ db.file_data[i].content # c
    /\ db' = [db EXCEPT !.file_data[i].content = c]
    /\ tx' = db'
    /\ corruptions' = corruptions + 1
    /\ UNCHANGED <<fs, pc, locals, result, returned, captured, envSteps, special>>

\* a row of file_data is deleted behind the engine's back
DropBlob(i) ==
    /\ pc = "idle"
    /\ corruptions < MaxCorruptions
    /\ i \in 1..Len(db.file_data)
    /\ db' = [db EXCEPT !.file_data =
                 SubSeq(@, 1, i - 1) \o SubSeq(@, i + 1, Len(@))]
    /\ tx' = db'
    /\ corruptions' = corruptions + 1
    /\ UNCHANGED <<fs, pc, locals, result, returned, captured, envSteps, special>>

Snapshot ==
    \/ \E root \in Roots : SnapshotInsert(root)
    \/ SnapshotNext
    \/ SnapshotGetSize
    \/ SnapshotHash
    \/ SnapshotInsertFile
    \/ SnapshotInsertBlob
    \/ SnapshotCommit

Prune ==
    \/ \E id \in 1..MaxSnapshots : PruneDeleteSnapshot(id)
    \/ PruneDeleteFiles
    \/ PruneCommit

Environment ==
    \/ \E p \in Paths, c \in Contents : WriteFile(p, c)
    \/ \E p \in Paths : DeleteFile(p)

Next ==
    \/ Snapshot
    \/ Prune
    \/ \E id \in 1..MaxSnapshots, before \in DestInits : Restore(id, before)
    \/ Check
    \/ List
    \/ Environment

Spec == Init /\ [][Next]_vars

\* snapshot and check on a store whose rows are also changed out-of-band
NextCorrupt ==
    \/ Snapshot
    \/ Check
    \/ Environment
    \/ \E i \in 1..(2 * MaxSnapshots), c \in Contents : Corrupt(i, c)

\* ... starting from a tree of two different files
InitCorrupt == Init /\ fs = [p \in Paths |-> IF p = "a.txt" THEN <<1>> ELSE <<0, 1>>]

SpecCorrupt == InitCorrupt /\ [][NextCorrupt]_vars

\* snapshot and restore on a store that also loses rows of file_data
NextMissing ==
    \/ Snapshot
    \/ \E id \in 1..MaxSnapshots, before \in DestInits : Restore(id, before)
    \/ Environment
    \/ \E i \in 1..(2 * MaxSnapshots) : DropBlob(i)

SpecMissing == InitCorrupt /\ [][NextMissing]_vars

\* the program on a directory that also holds a symbolic link to a regular
\* file, a device file and a subdirectory
InitLinks ==
    /\ fs \in Trees
    /\ special = SomeSpecial
    /\ db = EmptyDb
    /\ tx = EmptyDb
    /\ pc = "idle"
    /\ target_directory = "T"
    /\ snapshot_id = 0
    /\ walk = <<>>
    /\ file = "a.txt"
    /\ file_size = 0
    /\ file_hash = 0
    /\ total_size = 0
    /\ snapshot_number = 0
    /\ result = Running
    /\ returned = <<>>
    /\ captured = [i \in {} |-> EmptyTree]
    /\ envSteps = 0
    /\ corruptions = 0

NextLinks ==
    \/ Snapshot
    \/ \E id \in 1..MaxSnapshots, before \in DestInits : Restore(id, before)
    \/ List
    \/ Environment

SpecLinks == InitLinks /\ [][NextLinks]_vars

\* ================================================================ claims
Range(f) == {f[i] : i \in DOMAIN f}
Hashes(rows) == {rows[i].hash : i \in 1..Len(rows)}
Intact(row) == Sha256(row.content) = row.hash
UniqueDigests(d) ==
    \A i, j \in 1..Len(d.file_data) : d.file_data[i].hash = d.file_data[j].hash => i = j

\* C1: restoring, into an empty directory, the snapshot taken of a tree T
\* leaves exactly the paths of T, each with the bytes it has in T, whatever
\* snapshots and prunes came before.
RoundTrip ==
    (/\ result.op = "restore"
     /\ result.before = EmptyTree
     /\ result.arg \in DOMAIN captured
     /\ result.arg \in db.snapshots)
    => result.dest = captured[result.arg]

\* C2: no two stored rows of file_data share a digest, in the committed
\* store and inside the transaction, and every file entry of a committed
\* snapshot has exactly one row of content.
Dedup ==
    /\ UniqueDigests(db)
    /\ UniqueDigests(tx)
    /\ \A i \in 1..Len(db.files) : Len(BlobsOf(db, db.files[i].hash)) = 1

\* two entries of one snapshot and two entries of different snapshots share
\* one stored row
DedupWitness ==
    /\ pc = "idle"
    /\ Len(db.file_data) = 1
    /\ \E i, j \in 1..Len(db.files) :
          i # j /\ db.files[i].snapshot_id = db.files[j].snapshot_id
    /\ \E i, j \in 1..Len(db.files) :
          db.files[i].snapshot_id # db.files[j].snapshot_id

\* C3: without out-of-band changes of the store, the content of every
\* committed row of file_data hashes to the row's key.
ContentAddressed == \A i \in 1..Len(db.file_data) : Intact(db.file_data[i])

\* C4: the statements of prune change nothing a reader sees until the
\* commit; the commit removes the snapshot and every file entry of it, the
\* listing no longer shows it, and the rows of the other snapshots stay.
PruneCascade ==
    [][ /\ pc' \in PrunePcs => db' = db
        /\ (pc = "prune_commit" /\ pc' = "idle") =>
             /\ snapshot_number \notin db'.snapshots
             /\ FilesOf(db', snapshot_number) = <<>>
             /\ \A i \in 1..Len(ListSnapshots(db')) :
                    ListSnapshots(db')[i].id # snapshot_number
             /\ db'.snapshots = db.snapshots \ {snapshot_number}
             /\ \A other \in db.snapshots \ {snapshot_number} :
                    FilesOf(db', other) = FilesOf(db, other)
      ]_vars

\* a snapshot that had files was pruned (its content is no longer
\* referenced) while another snapshot with files remains
PruneCascadeWitness ==
    /\ result.op = "prune"
    /\ result.arg \in Range(returned)
    /\ result.arg \notin db.snapshots
    /\ db.snapshots # {}
    /\ db.files # <<>>
    /\ Hashes(db.file_data) \ Hashes(db.files) # {}

\* C5: no step of prune changes file_data, so the content of a digest that
\* only the pruned snapshot referenced stays stored and check() reports
\* what it reported before the prune.
OrphanPersistence ==
    [][ (pc \in PrunePcs \/ pc' \in PrunePcs) =>
            /\ db'.file_data = db.file_data
            /\ tx'.file_data = tx.file_data
            /\ CheckScan(db'.file_data) = CheckScan(db.file_data)
      ]_vars

\* the only snapshot was pruned and its content is still stored, intact
OrphanPersistenceWitness ==
    /\ result.op = "prune"
    /\ result.arg \in Range(returned)
    /\ db.snapshots = {}
    /\ db.file_data # <<>>
    /\ CheckScan(db.file_data).kind = "ok"

\* C6: check() reports success exactly when every row it fetched is
\* intact; otherwise it reports the digest of one row that is not intact,
\* the first one in the order of the scan.
CorruptionDetection ==
    result.op = "check" =>
        LET rows == result.files IN
        /\ result.kind = "ok" <=> \A i \in 1..Len(rows) : Intact(rows[i])
        /\ result.kind # "ok" =>
             /\ result.kind = "corrupt"
             /\ \E i \in 1..Len(rows) :
                   /\ ~Intact(rows[i])
                   /\ rows[i].hash = result.v
                   /\ \A j \in 1..(i - 1) : Intact(rows[j])

\* check() ran on a store with several rows changed out-of-band
CorruptionDetectionWitness ==
    /\ result.op = "check"
    /\ result.kind = "corrupt"
    /\ corruptions >= 2
    /\ Cardinality({i \in 1..Len(result.files) : ~Intact(result.files[i])}) >= 2

\* C7: at every step of snapshot, the digest of every file entry written
\* names a stored row of file_data.
BlobBeforeFileEntry ==
    \A i \in 1..Len(tx.files) : HashStored(tx, tx.files[i].hash)

\* C8: while snapshot runs, the committed store does not change; the
\* commit publishes the snapshot row together with all its file entries;
\* the file entries of a snapshot a reader can see never change.
SnapshotAtomic ==
    [][ /\ pc' \in SnapPcs =>
             /\ db' = db
             /\ snapshot_id' \notin db'.snapshots
             /\ FilesOf(db', snapshot_id') = <<>>
        /\ (pc = "commit" /\ pc' = "idle") =>
             /\ db' = tx
             /\ snapshot_id \in db'.snapshots
        /\ \A id \in db.snapshots \cap db'.snapshots :
               FilesOf(db', id) = FilesOf(db, id)
      ]_vars

\* snapshot is in the middle of its walk: one entry written, one to come
SnapshotAtomicWitness ==
    /\ pc \in SnapPcs
    /\ FilesOf(tx, snapshot_id) # <<>>
    /\ walk # <<>>
    /\ db.snapshots # {}

\* C9: snapshot of a path that is not an existing directory fails with
\* NotFound and creates no snapshot.
NotFoundOnBadRoot ==
    result.op = "snapshot" =>
        (result.arg # "T" => result.kind = "NotFound" /\ result.v \notin db.snapshots)

\* C10: the ids returned by snapshot are strictly increasing, and the id
\* of the running snapshot is greater than all ids returned before.
IdsIncrease ==
    /\ \A i, j \in 1..Len(returned) : i < j => returned[i] < returned[j]
    /\ pc \in SnapPcs => \A i \in 1..Len(returned) : returned[i] < snapshot_id

\* the second snapshot was taken after the first, then the highest, was pruned
IdsIncreaseWitness ==
    /\ result.op = "snapshot"
    /\ result.kind = "id"
    /\ Len(returned) = 2
    /\ returned[1] \notin db.snapshots

\* C11: when snapshot meets a digest that is stored, file_data stays as it
\* is, and writing the same digest once more changes nothing; no step
\* changes or removes a committed row of file_data.
IsPrefix(s, t) == Len(s) <= Len(t) /\ SubSeq(t, 1, Len(s)) = s

WriteOnce ==
    [][ /\ IsPrefix(db.file_data, db'.file_data)
        /\ (pc = "insert_blob" /\ pc' = "next") =>
             /\ HashStored(tx, file_hash) => tx'.file_data = tx.file_data
             /\ IsPrefix(tx.file_data, tx'.file_data)
             /\ \A c \in Contents :
                    PutBlob(tx', file_hash, c, Len(c)).file_data = tx'.file_data
      ]_vars

\* snapshot is about to meet a stored digest whose stored bytes are not the
\* bytes of the file it is processing
WriteOnceWitness ==
    /\ pc = "insert_blob"
    /\ file \in DOMAIN fs
    /\ \E i \in 1..Len(tx.file_data) :
          /\ tx.file_data[i].hash = file_hash
          /\ tx.file_data[i].content # fs[file]

\* C12: restore reports every entry whose content is not stored and leaves
\* its path as it was, and writes every entry whose content is stored.
BestEffortRestore ==
    [][ (result'.op = "restore" /\ result' # result) =>
            \A i \in 1..Len(FilesOf(db, result'.arg)) :
                LET e == FilesOf(db, result'.arg)[i] IN
                IF HashStored(db, e.hash)
                THEN /\ e.path \in DOMAIN result'.dest
                     /\ result'.dest[e.path] = BlobsOf(db, e.hash)[1].content
                ELSE /\ e.path \in result'.diagnostics
                     /\ e.path \notin DOMAIN result'.dest \ DOMAIN result'.before
      ]_vars

\* C13: prune of an id that names no snapshot completes without error and
\* leaves the three tables as they were; pruning the same id once more
\* after any prune changes nothing.
PruneMissingNoOp ==
    [][ (pc = "prune_commit" /\ pc' = "idle") =>
            /\ result'.op = "prune" /\ result'.kind = "ok"
            /\ snapshot_number \notin db.snapshots => db' = db
            /\ DeleteFiles(DeleteSnapshot(db', snapshot_number), snapshot_number) = db'
      ]_vars

\* an id that no snapshot ever had was pruned on a store that holds a
\* snapshot with files
PruneMissingNoOpWitness ==
    /\ result.op = "prune"
    /\ result.arg \notin Range(returned)
    /\ db.snapshots # {}
    /\ db.files # <<>>
    /\ db.file_data # <<>>

\* C14: a snapshot of a directory without regular files commits a snapshot
\* row with no file entry and no new row of file_data, reports 0 bytes and
\* is listed with size 0; restoring it leaves the destination as it was.
IsEmptySnapshot(id) == id \in DOMAIN captured /\ captured[id] = EmptyTree

EmptySnapshot ==
    [][ /\ (pc = "commit" /\ pc' = "idle" /\ IsEmptySnapshot(snapshot_id)) =>
             /\ result'.kind = "id" /\ result'.v = snapshot_id
             /\ result'.total = 0
             /\ snapshot_id \in db'.snapshots
             /\ FilesOf(db', snapshot_id) = <<>>
             /\ db'.file_data = db.file_data
             /\ \E i \in 1..Len(ListSnapshots(db')) :
                    ListSnapshots(db')[i] = [id |-> snapshot_id, size |-> 0]
        /\ (/\ result'.op = "restore" /\ result' # result
            /\ IsEmptySnapshot(result'.arg) /\ result'.arg \in db.snapshots) =>
             /\ result'.kind = "ok"
             /\ result'.dest = result'.before
      ]_vars

\* the snapshot of an empty directory was restored into an empty
\* destination, on a store that holds content of another snapshot
EmptySnapshotWitness ==
    /\ result.op = "restore"
    /\ IsEmptySnapshot(result.arg)
    /\ result.arg \in db.snapshots
    /\ result.before = EmptyTree
    /\ result.dest = EmptyTree
    /\ db.file_data # <<>>

\* C15: list_snapshots shows one row per snapshot row, in ascending order
\* of id, each with the sum of the sizes of the snapshot's file entries;
\* that sum is the total the snapshot call reported when it committed.
RECURSIVE SizesOf(_, _, _)
SizesOf(files, id, n) ==
    IF n = 0 THEN 0
    ELSE (IF files[n].snapshot_id = id THEN files[n].size ELSE 0)
         + SizesOf(files, id, n - 1)

ListTotals ==
    [][ /\ (result'.op = "list" /\ result' # result) =>
             LET rows == result'.rows IN
             /\ {rows[i].id : i \in 1..Len(rows)} = db.snapshots
             /\ \A i, j \in 1..Len(rows) : i < j => rows[i].id < rows[j].id
             /\ \A i \in 1..Len(rows) :
                    rows[i].size = SizesOf(db.files, rows[i].id, Len(db.files))
        /\ (pc = "commit" /\ pc' = "idle") =>
             /\ result'.total = SizesOf(db'.files, snapshot_id, Len(db'.files))
             /\ \E i \in 1..Len(ListSnapshots(db')) :
                    ListSnapshots(db')[i] = [id |-> snapshot_id, size |-> result'.total]
      ]_vars

\* two snapshots of different total sizes are listed
ListTotalsWitness ==
    /\ result.op = "list"
    /\ Len(result.rows) = 2
    /\ result.rows[1].size > result.rows[2].size
    /\ result.rows[2].size >= 2


\* C16: a snapshot that commits while the directory stays as it was has a
\* files row for exactly the regular files under the source root, and no row
\* for a symbolic link, a device file or a directory.
PathsOf(d, id) == {FilesOf(d, id)[i].path : i \in 1..Len(FilesOf(d, id))}

RegularFilesOnly ==
    \A id \in DOMAIN captured :
        id \in db.snapshots =>
            /\ PathsOf(db, id) = DOMAIN captured[id]
            /\ PathsOf(db, id) \cap DOMAIN special = {}

\* C17: a snapshot that fails on an unreadable file, after any number of files
\* were processed, raises without returning an id and leaves the committed
\* store as it was before the call: the store changes during a snapshot call
\* only by its successful commit, and the failing step rolls back every
\* snapshots, files and file_data row of the attempt.
FailedSnapshotNoTrace ==
    [][ /\ (pc \in SnapPcs /\ db' # db) =>
             (pc = "commit" /\ result'.kind = "id")
        /\ (pc \in SnapPcs /\ result'.kind = "IOError") =>
             /\ db' = db
             /\ tx' = db
             /\ returned' = returned
             /\ snapshot_id \notin db'.snapshots
             /\ FilesOf(db', snapshot_id) = <<>>
             /\ db'.seq < snapshot_id
      ]_vars

FailedSnapshotNoTraceWitness ==
    /\ result.op = "snapshot" /\ result.kind = "IOError" /\ result.v >= 1
    /\ pc = "idle" /\ tx = db /\ db.snapshots # {}

\* C18: in every committed state, every files row names a snapshot id that
\* has a snapshots row and a digest that has a file_data row.
ReferentialIntegrity ==
    \A i \in 1..Len(db.files) :
        /\ db.files[i].snapshot_id \in db.snapshots
        /\ HashStored(db, db.files[i].hash)

ReferentialIntegrityWitness ==
    /\ result.op = "restore"
    /\ result.arg \in db.snapshots
    /\ Len(FilesOf(db, result.arg)) = 2
    /\ \E id \in Range(returned) : id \notin db.snapshots

\* C19: restore, list_snapshots and check, the steps that start and end with
\* no operation in progress and leave the directory alone, change no row of
\* snapshots, files or file_data, whatever their argument and outcome.
ReadOnlyOperations ==
    [][ (pc = "idle" /\ pc' = "idle" /\ fs' = fs) =>
            /\ result'.op \in {"restore", "list", "check"}
            /\ db' = db
            /\ tx' = tx
      ]_vars

ReadOnlyOperationsWitness ==
    /\ result.op = "restore"
    /\ result.arg \notin Range(returned)
    /\ result.dest = result.before
    /\ Hashes(db.file_data) \ Hashes(db.files) # {}

====
